---- MODULE Spec2Model ----
(***************************************************************************)
(* Token lifecycle of the auth service: signup, login, refresh and logout  *)
(* (controllers/authController.js) and the validateToken middleware        *)
(* (middleware/validateToken.js), over the users and refresh_tokens        *)
(* tables reached through pool.query.                                      *)
(*                                                                         *)
(* Each handler is async: it runs synchronously up to an await of          *)
(* pool.query and resumes when the query settles.  One action models one   *)
(* such segment, the query it awaited included; requests interleave        *)
(* between segments.  The clock counts whole seconds, the resolution of    *)
(* the iat and exp fields of a JSON Web Token.                             *)
(***************************************************************************)
EXTENDS Integers, Sequences, FiniteSets, Bags, TLC

\* ---------------------------------------------------------------- bounds
NumReqs == 2                  \* requests in flight, or finished and not yet let go of
MaxTime == 2                  \* last second of the clock
MaxUsers == 2                 \* rows the users table may hold
MaxRows == 2                  \* rows the refresh_tokens table may hold
JWT_EXPIRES_IN == 1           \* process.env.JWT_EXPIRES_IN, in seconds
JWT_REFRESH_EXPIRES_IN == 2   \* process.env.JWT_REFRESH_EXPIRES_IN, in seconds

\* ------------------------------------------------------- configuration
JWT_SECRET == "JWT_SECRET"
JWT_REFRESH_SECRET == "JWT_REFRESH_SECRET"

Emails == {"a@x.com", "b@x.com"}
Passwords == {"pw1", "pw2"}

\* ------------------------------------------------------------- tokens
\* A token is the string jwt.sign returns.  HS256 is deterministic, so the
\* string is a function of the payload {userId, email, iat, exp} and of the
\* secret: sig names the secret the signature was made with.  "none" is a
\* missing or empty value, "malformed" a string that is no JWT, "forged" a
\* JWT signed with a key that is neither secret of the service.
NoToken == [sig |-> "none", userId |-> 0, email |-> "", iat |-> 0, exp |-> 0]
Garbage == [sig |-> "malformed", userId |-> 0, email |-> "", iat |-> 0, exp |-> 0]
Forged == [sig |-> "forged", userId |-> 1, email |-> "a@x.com", iat |-> 0, exp |-> 1]

NoIdentity == [userId |-> 0, email |-> ""]

jwtSign(userId, email, secret, expiresIn, t) ==
    [sig |-> secret, userId |-> userId, email |-> email, iat |-> t, exp |-> t + expiresIn]

\* jwt.verify as it would be if any secret of the service verified any of its
\* tokens.
jwtVerifyAnySecret(token, secret, t) ==
    IF token.sig \notin {JWT_SECRET, JWT_REFRESH_SECRET}
    THEN [ok |-> FALSE, name |-> "JsonWebTokenError", payload |-> NoIdentity]
    ELSE IF t >= token.exp
    THEN [ok |-> FALSE, name |-> "TokenExpiredError", payload |-> NoIdentity]
    ELSE [ok |-> TRUE, name |-> "",
          payload |-> [userId |-> token.userId, email |-> token.email]]

\* jwt.verify as it would be with ignoreExpiration set.
jwtVerifyIgnoreExpiration(token, secret, t) ==
    IF token.sig # secret
    THEN [ok |-> FALSE, name |-> "JsonWebTokenError", payload |-> NoIdentity]
    ELSE [ok |-> TRUE, name |-> "",
          payload |-> [userId |-> token.userId, email |-> token.email]]

\* jwt.verify as it would be with a clockTolerance of one second.
jwtVerifyClockTolerance(token, secret, t) ==
    IF token.sig # secret
    THEN [ok |-> FALSE, name |-> "JsonWebTokenError", payload |-> NoIdentity]
    ELSE IF t >= token.exp + 1
    THEN [ok |-> FALSE, name |-> "TokenExpiredError", payload |-> NoIdentity]
    ELSE [ok |-> TRUE, name |-> "",
          payload |-> [userId |-> token.userId, email |-> token.email]]

\* jwt.verify: the signature is checked first, then the expiry; the payload
\* is returned when both pass.
jwtVerify(token, secret, t) ==
    IF token.sig # secret
    THEN [ok |-> FALSE, name |-> "JsonWebTokenError", payload |-> NoIdentity]
    ELSE IF t >= token.exp
    THEN [ok |-> FALSE, name |-> "TokenExpiredError", payload |-> NoIdentity]
    ELSE [ok |-> TRUE, name |-> "",
          payload |-> [userId |-> token.userId, email |-> token.email]]

\* generateAccessToken as it would be if it signed with the refresh secret.
generateAccessTokenRefreshSecret(userId, email, t) ==
    jwtSign(userId, email, JWT_REFRESH_SECRET, JWT_EXPIRES_IN, t)

generateAccessToken(userId, email, t) ==
    jwtSign(userId, email, JWT_SECRET, JWT_EXPIRES_IN, t)

generateRefreshToken(userId, email, t) ==
    jwtSign(userId, email, JWT_REFRESH_SECRET, JWT_REFRESH_EXPIRES_IN, t)

\* ------------------------------------------------------------- bcrypt
bcryptHash(password) == [bcrypt |-> password]
\* bcrypt.compare as it would be if it accepted every password.
bcryptCompareAny(password, hashed) == TRUE

bcryptCompare(password, hashed) == hashed = bcryptHash(password)

\* ------------------------------------------------------------- tables
NoRow == [id |-> 0, email |-> "", password |-> bcryptHash(""),
          first_name |-> "", last_name |-> ""]
NoUser == [id |-> 0, email |-> "", firstName |-> "", lastName |-> ""]

\* SELECT * FROM users WHERE email = $1
SelectUsersByEmail(tbl, email) == { u \in tbl : u.email = email }

\* SELECT * FROM refresh_tokens WHERE token = $1 AND user_id = $2
SelectRefreshToken(tbl, token, userId) ==
    { row \in BagToSet(tbl) : row.token = token /\ row.user_id = userId }

\* The INSERT as it would be if it stored every token under user_id 1.
InsertRefreshTokenFirstUser(tbl, userId, token) ==
    tbl (+) SetToBag({[user_id |-> 1, token |-> token]})

\* INSERT INTO refresh_tokens (user_id, token) VALUES ($1, $2)
InsertRefreshToken(tbl, userId, token) ==
    tbl (+) SetToBag({[user_id |-> userId, token |-> token]})

\* The DELETE as it would be if it removed a single matching row.
DeleteRefreshTokenOneRow(tbl, token) ==
    LET hit == { x \in BagToSet(tbl) : x.token = token }
    IN  IF hit = {} THEN tbl ELSE tbl (-) SetToBag({CHOOSE x \in hit : TRUE})

\* DELETE FROM refresh_tokens WHERE token = $1
DeleteRefreshToken(tbl, token) ==
    [row \in { x \in BagToSet(tbl) : x.token # token } |-> tbl[row]]

\* ---------------------------------------------------------- responses
NoRes == [status |-> 0, error |-> "", message |-> "", user |-> NoUser,
          accessToken |-> NoToken, refreshToken |-> NoToken]

ErrorRes(status, error) == [NoRes EXCEPT !.status = status, !.error = error]

UserJson(u) == [id |-> u.id, email |-> u.email,
                firstName |-> u.first_name, lastName |-> u.last_name]

\* ------------------------------------------------------------ requests
NoHeader == [present |-> FALSE, token |-> NoToken]
NoBody == [email |-> "", password |-> "", firstName |-> "", lastName |-> "",
           refreshToken |-> NoToken, authorization |-> NoHeader]
NoLoc == [hashedPassword |-> bcryptHash(""), user |-> NoRow,
          accessToken |-> NoToken, refreshToken |-> NoToken,
          decoded |-> NoIdentity, rowCount |-> 0, afterLogout |-> FALSE]

\* A request as the handler receives it: req.body (req.headers for the
\* middleware), the handler's locals, and what it has answered so far.
NewReq(op, pc, body) ==
    [op |-> op, pc |-> pc, body |-> body, loc |-> NoLoc,
     res |-> NoRes, next |-> FALSE, user |-> NoIdentity]

VARIABLES
    now,             \* the clock, Math.floor(Date.now() / 1000)
    users,           \* the users table
    nextId,          \* the serial behind users.id
    refresh_tokens,  \* the refresh_tokens table, a bag of (user_id, token) rows
    req              \* the bag of requests: those in flight, and the finished
                     \* ones with their responses until the caller lets go

vars == <<now, users, nextId, refresh_tokens, req>>

Init ==
    /\ now = 0
    /\ users = {}
    /\ nextId = 1
    /\ refresh_tokens = EmptyBag
    /\ req = EmptyBag

Reqs == BagToSet(req)

\* --------------------------------------------------------------- inputs
\* The two addresses are interchangeable, so the first account is taken to
\* be that of a@x.com: b@x.com signs up once users holds a row.
SignupBodies ==
    { [NoBody EXCEPT !.email = e, !.password = "pw1", !.firstName = "Ann", !.lastName = "Lee"] :
        e \in IF users = {} THEN {"a@x.com"} ELSE Emails }
    \cup { [NoBody EXCEPT !.email = "", !.password = "pw1", !.firstName = "Ann", !.lastName = "Lee"],
           [NoBody EXCEPT !.email = "a@x.com", !.password = "", !.firstName = "Ann", !.lastName = "Lee"],
           [NoBody EXCEPT !.email = "a@x.com", !.password = "pw1", !.firstName = "", !.lastName = "Lee"],
           [NoBody EXCEPT !.email = "a@x.com", !.password = "pw1", !.firstName = "Ann", !.lastName = ""] }

LoginBodies ==
    { [NoBody EXCEPT !.email = e, !.password = p] : e \in Emails, p \in Passwords }
    \cup { [NoBody EXCEPT !.email = "", !.password = "pw1"],
           [NoBody EXCEPT !.email = "a@x.com", !.password = ""] }

Truthy(token) == token.sig # "none"

Carried(res) == { k \in {res.accessToken, res.refreshToken} : Truthy(k) }

\* The tokens callers hold: those of the responses they still have, those
\* of the requests they have sent, and the refresh tokens of the stored rows
\* (a row is stored in the step that returns its token).
Held ==
    UNION { Carried(q.res) \cup Carried([accessToken |-> q.body.authorization.token,
                                         refreshToken |-> q.body.refreshToken]) : q \in Reqs }
    \cup { row.token : row \in BagToSet(refresh_tokens) }

\* The values a caller can put in a request: nothing, a string that is no
\* JWT, a JWT it signed itself, or a token the service has handed out.
Presentable == {NoToken, Garbage, Forged} \cup Held

TokenBodies == { [NoBody EXCEPT !.refreshToken = k] : k \in Presentable }

\* authorization header: absent; present without a second space-separated
\* part; "Bearer <token>".  token is authHeader.split(' ')[1].
Headers == {NoHeader} \cup { [present |-> TRUE, token |-> k] : k \in Presentable }
GuardBodies == { [NoBody EXCEPT !.authorization = h] : h \in Headers }

\* -------------------------------------------------------------- helpers
\* The server takes another request while fewer than NumReqs are with it or
\* with their callers.
Room == BagCardinality(req) < NumReqs

\* A request arrives.
Arrive(q) == req' = req (+) SetToBag({q})

\* Request q moves on to q2.
Becomes(q, q2) == req' = (req (-) SetToBag({q})) (+) SetToBag({q2})

\* res.status(..).json(..): the handler is through; its locals are kept as
\* they were when it answered.
Respond(q, res) == [q EXCEPT !.pc = "done", !.res = res]

\* ---------------------------------------------------------------- signup
\* lines 44-64: read the body, validate, issue the SELECT on users
SignupStart(body) ==
    /\ Room
    /\ IF body.email = "" \/ body.password = "" \/ body.firstName = "" \/ body.lastName = ""
       THEN Arrive(Respond(NewReq("signup", "idle", body), ErrorRes(400, "All fields are required")))
       ELSE Arrive(NewReq("signup", "signup_select", body))
    /\ UNCHANGED <<now, users, nextId, refresh_tokens>>

\* lines 61-80: the SELECT settles; 409 when a row exists, else hash the password
SignupSelect(q) ==
    /\ q.pc = "signup_select"
    /\ IF SelectUsersByEmail(users, q.body.email) # {}
       THEN Becomes(q, Respond(q, ErrorRes(409, "User already exists")))
       ELSE Becomes(q, [q EXCEPT !.pc = "signup_insert_user",
                                 !.loc.hashedPassword = bcryptHash(q.body.password)])
    /\ UNCHANGED <<now, users, nextId, refresh_tokens>>

\* lines 90-102: INSERT INTO users ... RETURNING, then mint both tokens
SignupInsertUser(q) ==
    /\ q.pc = "signup_insert_user"
    /\ Cardinality(users) < MaxUsers
    /\ LET user == [id |-> nextId, email |-> q.body.email,
                    password |-> q.loc.hashedPassword,
                    first_name |-> q.body.firstName, last_name |-> q.body.lastName]
       IN  /\ users' = users \cup {user}
           /\ nextId' = nextId + 1
           /\ Becomes(q, [q EXCEPT !.pc = "signup_insert_token",
                                   !.loc.user = user,
                                   !.loc.accessToken = generateAccessToken(user.id, user.email, now),
                                   !.loc.refreshToken = generateRefreshToken(user.id, user.email, now)])
    /\ UNCHANGED <<now, refresh_tokens>>

\* The response of signup once the refresh token is stored (lines 115-125)
SignupCreated(q) ==
    [NoRes EXCEPT !.status = 201, !.message = "User created successfully",
                  !.user = UserJson(q.loc.user),
                  !.accessToken = q.loc.accessToken,
                  !.refreshToken = q.loc.refreshToken]

\* lines 105-125: INSERT INTO refresh_tokens, then the 201 response
SignupInsertToken(q) ==
    /\ q.pc = "signup_insert_token"
    /\ BagCardinality(refresh_tokens) < MaxRows
    /\ refresh_tokens' = InsertRefreshToken(refresh_tokens, q.loc.user.id, q.loc.refreshToken)
    /\ Becomes(q, Respond(q, SignupCreated(q)))
    /\ UNCHANGED <<now, users, nextId>>

\* The catch of signup as it would be if it sent the minted tokens along.
SignupFailedWithTokens(q) ==
    [ErrorRes(500, "Internal server error") EXCEPT
        !.accessToken = q.loc.accessToken, !.refreshToken = q.loc.refreshToken]

\* What the catch of signup answers (lines 128-134)
SignupFailed(q) == ErrorRes(500, "Internal server error")

\* lines 128-134: a pool.query of signup rejects
SignupCatch(q) ==
    /\ q.pc \in {"signup_select", "signup_insert_user", "signup_insert_token"}
    /\ Becomes(q, Respond(q, SignupFailed(q)))
    /\ UNCHANGED <<now, users, nextId, refresh_tokens>>

\* ----------------------------------------------------------------- login
\* lines 140-154
LoginStart(body) ==
    /\ Room
    /\ IF body.email = "" \/ body.password = ""
       THEN Arrive(Respond(NewReq("login", "idle", body),
                           ErrorRes(400, "Email and password are required")))
       ELSE Arrive(NewReq("login", "login_select", body))
    /\ UNCHANGED <<now, users, nextId, refresh_tokens>>

\* lines 151-183: the SELECT settles; rows[0] is any matching row, since the
\* query has no ORDER BY
LoginSelect(q) ==
    /\ q.pc = "login_select"
    /\ LET rows == SelectUsersByEmail(users, q.body.email)
       IN  IF rows = {}
           THEN Becomes(q, Respond(q, ErrorRes(401, "Invalid credentials")))
           ELSE \E user \in rows :
                  IF ~bcryptCompare(q.body.password, user.password)
                  THEN Becomes(q, Respond(q, ErrorRes(401, "Invalid credentials")))
                  ELSE Becomes(q, [q EXCEPT
                          !.pc = "login_insert_token",
                          !.loc.user = user,
                          !.loc.accessToken = generateAccessToken(user.id, user.email, now),
                          !.loc.refreshToken = generateRefreshToken(user.id, user.email, now)])
    /\ UNCHANGED <<now, users, nextId, refresh_tokens>>

\* The response of login once the refresh token is stored (lines 192-202)
LoginSuccessful(q) ==
    [NoRes EXCEPT !.status = 200, !.message = "Login successful",
                  !.user = UserJson(q.loc.user),
                  !.accessToken = q.loc.accessToken,
                  !.refreshToken = q.loc.refreshToken]

\* lines 186-202
LoginInsertToken(q) ==
    /\ q.pc = "login_insert_token"
    /\ BagCardinality(refresh_tokens) < MaxRows
    /\ refresh_tokens' = InsertRefreshToken(refresh_tokens, q.loc.user.id, q.loc.refreshToken)
    /\ Becomes(q, Respond(q, LoginSuccessful(q)))
    /\ UNCHANGED <<now, users, nextId>>

\* The catch of login as it would be if it only logged the error.
LoginFailedSilently(q) == NoRes

\* What the catch of login answers (lines 205-210)
LoginFailed(q) == ErrorRes(500, "Internal server error")

\* lines 205-210
LoginCatch(q) ==
    /\ q.pc \in {"login_select", "login_insert_token"}
    /\ Becomes(q, Respond(q, LoginFailed(q)))
    /\ UNCHANGED <<now, users, nextId, refresh_tokens>>

\* --------------------------------------------------------------- refresh
\* A logout of this token has answered 200 after its DELETE removed a row,
\* and its caller still has the answer.
AfterLogout(token) ==
    \E s \in Reqs :
        /\ s.op = "logout" /\ s.pc = "done" /\ s.res.status = 200
        /\ s.body.refreshToken = token
        /\ s.loc.rowCount > 0

\* lines 216-238: read the body, jwt.verify under the refresh secret, issue
\* the SELECT on refresh_tokens; the catch of lines 253-258 for a jwt error
RefreshStart(body) ==
    /\ Room
    /\ LET q == [NewReq("refresh", "idle", body) EXCEPT
                    !.loc.afterLogout = AfterLogout(body.refreshToken)]
           v == jwtVerify(body.refreshToken, JWT_REFRESH_SECRET, now)
       IN  IF ~Truthy(body.refreshToken)
           THEN Arrive(Respond(q, ErrorRes(401, "Refresh token required")))
           ELSE IF ~v.ok
           THEN Arrive(Respond(q, ErrorRes(401, "Invalid or expired refresh token")))
           ELSE Arrive([q EXCEPT !.pc = "refresh_select", !.loc.decoded = v.payload])
    /\ UNCHANGED <<now, users, nextId, refresh_tokens>>

\* The SELECT of refresh as it would be if it matched on user_id alone.
RefreshTokenExistsByUser(q) ==
    { row \in BagToSet(refresh_tokens) : row.user_id = q.loc.decoded.userId }

\* The rows the SELECT of refresh returns for request q (lines 235-238)
RefreshTokenExists(q) ==
    SelectRefreshToken(refresh_tokens, q.body.refreshToken, q.loc.decoded.userId)

\* The table after refresh as it would be if refresh rotated the token.
RefreshStoreRotated(q) == DeleteRefreshToken(refresh_tokens, q.body.refreshToken)

\* The table after refresh has run (refresh issues no write)
RefreshStore(q) == refresh_tokens

\* lines 235-251: the SELECT settles; 401 without a row, else a new access token
RefreshSelect(q) ==
    /\ q.pc = "refresh_select"
    /\ LET newAccessToken == generateAccessToken(q.loc.decoded.userId, q.loc.decoded.email, now)
       IN  IF RefreshTokenExists(q) = {}
           THEN Becomes(q, Respond(q, ErrorRes(401, "Invalid refresh token")))
           ELSE Becomes(q, Respond([q EXCEPT !.loc.accessToken = newAccessToken],
                                   [NoRes EXCEPT !.status = 200, !.accessToken = newAccessToken]))
    /\ refresh_tokens' = RefreshStore(q)
    /\ UNCHANGED <<now, users, nextId>>

\* lines 253-263: the SELECT of refresh rejects; the error is no jwt error
RefreshCatch(q) ==
    /\ q.pc = "refresh_select"
    /\ Becomes(q, Respond(q, ErrorRes(500, "Internal server error")))
    /\ UNCHANGED <<now, users, nextId, refresh_tokens>>

\* ---------------------------------------------------------------- logout
\* lines 269-282
LogoutStart(body) ==
    /\ Room
    /\ IF ~Truthy(body.refreshToken)
       THEN Arrive(Respond(NewReq("logout", "idle", body), ErrorRes(400, "Refresh token required")))
       ELSE Arrive(NewReq("logout", "logout_delete", body))
    /\ UNCHANGED <<now, users, nextId, refresh_tokens>>

\* lines 279-290: the DELETE settles, then the 200 response
LogoutDelete(q) ==
    /\ q.pc = "logout_delete"
    /\ refresh_tokens' = DeleteRefreshToken(refresh_tokens, q.body.refreshToken)
    /\ Becomes(q, Respond([q EXCEPT !.loc.rowCount =
                              BagCardinality(refresh_tokens) - BagCardinality(refresh_tokens')],
                          [NoRes EXCEPT !.status = 200, !.message = "Logout successful"]))
    /\ UNCHANGED <<now, users, nextId>>

\* lines 292-297
LogoutCatch(q) ==
    /\ q.pc = "logout_delete"
    /\ Becomes(q, Respond(q, ErrorRes(500, "Internal server error")))
    /\ UNCHANGED <<now, users, nextId, refresh_tokens>>

\* validateToken as it would be if it asked refresh_tokens for a live
\* session of the token's user.
validateTokenWithStore(authHeader, t) ==
    LET token == authHeader.token
        v == jwtVerify(token, JWT_SECRET, t)
    IN  IF ~authHeader.present
        THEN [res |-> ErrorRes(401, "Access token required"), next |-> FALSE, user |-> NoIdentity]
        ELSE IF ~Truthy(token)
        THEN [res |-> ErrorRes(401, "Invalid token format"), next |-> FALSE, user |-> NoIdentity]
        ELSE IF v.ok /\ \E row \in BagToSet(refresh_tokens) : row.user_id = v.payload.userId
        THEN [res |-> NoRes, next |-> TRUE,
              user |-> [userId |-> v.payload.userId, email |-> v.payload.email]]
        ELSE IF v.ok \/ v.name = "JsonWebTokenError"
        THEN [res |-> ErrorRes(401, "Invalid token"), next |-> FALSE, user |-> NoIdentity]
        ELSE [res |-> ErrorRes(401, "Token expired"), next |-> FALSE, user |-> NoIdentity]

\* validateToken as it would be if it set req.user from the decoded payload
\* before verifying it.
validateTokenDecodeFirst(authHeader, t) ==
    LET token == authHeader.token
        v == jwtVerify(token, JWT_SECRET, t)
        user == IF token.sig \in {"none", "malformed"} THEN NoIdentity
                ELSE [userId |-> token.userId, email |-> token.email]
    IN  IF ~authHeader.present
        THEN [res |-> ErrorRes(401, "Access token required"), next |-> FALSE, user |-> NoIdentity]
        ELSE IF ~Truthy(token)
        THEN [res |-> ErrorRes(401, "Invalid token format"), next |-> FALSE, user |-> NoIdentity]
        ELSE IF v.ok
        THEN [res |-> NoRes, next |-> TRUE, user |-> user]
        ELSE IF v.name = "JsonWebTokenError"
        THEN [res |-> ErrorRes(401, "Invalid token"), next |-> FALSE, user |-> user]
        ELSE [res |-> ErrorRes(401, "Token expired"), next |-> FALSE, user |-> user]

\* --------------------------------------------------------- validateToken
\* The middleware is synchronous: what it does with a request carrying the
\* header authHeader at second t.  res.status = 0 means no response is sent.
validateToken(authHeader, t) ==
    LET token == authHeader.token
        v == jwtVerify(token, JWT_SECRET, t)
    IN  IF ~authHeader.present
        THEN [res |-> ErrorRes(401, "Access token required"), next |-> FALSE, user |-> NoIdentity]
        ELSE IF ~Truthy(token)
        THEN [res |-> ErrorRes(401, "Invalid token format"), next |-> FALSE, user |-> NoIdentity]
        ELSE IF v.ok
        THEN [res |-> NoRes, next |-> TRUE,
              user |-> [userId |-> v.payload.userId, email |-> v.payload.email]]
        ELSE IF v.name = "JsonWebTokenError"
        THEN [res |-> ErrorRes(401, "Invalid token"), next |-> FALSE, user |-> NoIdentity]
        ELSE [res |-> ErrorRes(401, "Token expired"), next |-> FALSE, user |-> NoIdentity]

\* part_001 lines 46-113
ValidateToken(body) ==
    /\ Room
    /\ LET out == validateToken(body.authorization, now)
       IN  Arrive([NewReq("validateToken", "done", body) EXCEPT
                      !.res = out.res, !.next = out.next, !.user = out.user])
    /\ UNCHANGED <<now, users, nextId, refresh_tokens>>

\* ------------------------------------------------------------ environment
\* A second passes.
Tick ==
    /\ now < MaxTime
    /\ now' = now + 1
    /\ UNCHANGED <<users, nextId, refresh_tokens, req>>

\* The caller lets go of a finished request and its response.
Recycle(q) ==
    /\ q.pc = "done"
    /\ req' = req (-) SetToBag({q})
    /\ UNCHANGED <<now, users, nextId, refresh_tokens>>

Next ==
    \/ \E body \in SignupBodies : SignupStart(body)
    \/ \E q \in Reqs : SignupSelect(q)
    \/ \E q \in Reqs : SignupInsertUser(q)
    \/ \E q \in Reqs : SignupInsertToken(q)
    \/ \E q \in Reqs : SignupCatch(q)
    \/ \E body \in LoginBodies : LoginStart(body)
    \/ \E q \in Reqs : LoginSelect(q)
    \/ \E q \in Reqs : LoginInsertToken(q)
    \/ \E q \in Reqs : LoginCatch(q)
    \/ \E body \in TokenBodies : RefreshStart(body)
    \/ \E q \in Reqs : RefreshSelect(q)
    \/ \E q \in Reqs : RefreshCatch(q)
    \/ \E body \in TokenBodies : LogoutStart(body)
    \/ \E q \in Reqs : LogoutDelete(q)
    \/ \E q \in Reqs : LogoutCatch(q)
    \/ \E body \in GuardBodies : ValidateToken(body)
    \/ \E q \in Reqs : Recycle(q)
    \/ Tick

Spec == Init /\ [][Next]_vars

\* ================================================================ claims
\* The requests a step has moved: those that arrived or went on in the step.
Moved == { q \in BagToSet(req') : CopiesIn(q, req') > CopiesIn(q, req) }

\* The requests a step has finished: those answered (or passed to next) in
\* the step.
NewlyDone == { q \in Moved : q.pc = "done" }

IsIssue(q) == q.op \in {"signup", "login"}
Issued(q) == IsIssue(q) /\ q.pc = "done" /\ q.res.status \in {200, 201}
Renewed(q) == q.op = "refresh" /\ q.pc = "done" /\ q.res.status = 200

\* C1: once a logout of an issued refresh token has answered 200, a refresh
\* with the same value that starts afterwards is rejected and returns no
\* access token (a 500 of a failed lookup counts as rejected here).
C1_RevokedNeverRenews ==
    \A q \in Reqs :
        (q.op = "refresh" /\ q.pc = "done" /\ q.loc.afterLogout)
            => /\ q.res.status \in {401, 500}
               /\ q.res.accessToken = NoToken

\* C2: a refresh whose token passed jwt.verify, and whose lookup settled, is
\* answered 200 with an access token if and only if refresh_tokens holds a
\* row with that token and the user_id decoded from it.
C2_AcceptedIffRecord ==
    [][\A q \in NewlyDone :
          (q.op = "refresh" /\ q.loc.decoded # NoIdentity /\ q.res.status # 500)
              => /\ q.loc.decoded.userId = q.body.refreshToken.userId
                 /\ (q.res.status = 200 /\ Truthy(q.res.accessToken))
                      <=> (\E row \in BagToSet(refresh_tokens) :
                              /\ row.token = q.body.refreshToken
                              /\ row.user_id = q.body.refreshToken.userId)
                 /\ q.res.status # 200
                      => (q.res.status = 401 /\ q.res.accessToken = NoToken)]_vars

\* A refresh of a token that verifies was answered 401 for want of a row.
C2_Witness ==
    \E q \in Reqs :
        /\ q.op = "refresh" /\ q.pc = "done"
        /\ q.loc.decoded # NoIdentity
        /\ q.res = ErrorRes(401, "Invalid refresh token")

\* C3: no step of refresh inserts, deletes or replaces a row of
\* refresh_tokens, and a refresh of a token that verifies and whose row is
\* in the table succeeds, however often it is repeated (its lookup failing
\* apart).
C3_RenewRepeatsAndKeepsRows ==
    [][\A q \in Moved :
          q.op = "refresh"
             => /\ refresh_tokens' = refresh_tokens
                /\ (/\ q.pc = "done"
                    /\ q.loc.decoded # NoIdentity
                    /\ BagIn([user_id |-> q.loc.decoded.userId,
                              token |-> q.body.refreshToken], refresh_tokens)
                    /\ q.res.status # 500)
                     => /\ q.res.status = 200
                        /\ q.res.accessToken.sig = JWT_SECRET]_vars

\* The same refresh token has been renewed twice, both times with success,
\* and its row is still in the table.
C3_Witness ==
    \E q \in Reqs :
        /\ Renewed(q)
        /\ \/ CopiesIn(q, req) = 2
           \/ \E s \in Reqs : s # q /\ Renewed(s) /\ s.body = q.body
        /\ BagIn([user_id |-> q.loc.decoded.userId, token |-> q.body.refreshToken],
                 refresh_tokens)

\* What the middleware attaches for an accepted token
IdentityOf(token) == [userId |-> token.userId, email |-> token.email]

\* C4: the access token of every signup, login and refresh response is
\* accepted by validateToken at every second before its expiry, and req.user
\* is the identity of the account the session belongs to.
C4_IssuedAccessIsAccepted ==
    \A q \in Reqs :
        (Issued(q) \/ Renewed(q)) =>
            LET a == q.res.accessToken
                session == IF IsIssue(q)
                           THEN [userId |-> q.res.user.id, email |-> q.res.user.email]
                           ELSE IdentityOf(q.body.refreshToken)
            IN  /\ \E u \in users : u.id = session.userId /\ u.email = session.email
                /\ \A t \in 0..MaxTime :
                      (a.iat <= t /\ t < a.exp) =>
                          LET out == validateToken([present |-> TRUE, token |-> a], t)
                          IN  out.next /\ out.res = NoRes /\ out.user = session

\* validateToken has let through the access token of a refresh response,
\* with the identity of the session.
C4_Witness ==
    \E q \in Reqs, g \in Reqs :
        /\ Renewed(q)
        /\ g.op = "validateToken" /\ g.pc = "done"
        /\ g.body.authorization.token = q.res.accessToken
        /\ g.next /\ g.user = IdentityOf(q.body.refreshToken)

\* C5: validateToken rejects every refresh token as invalid and attaches no
\* identity; refresh rejects every access token with 401 and returns no
\* access token; verification under the other secret reports a signature
\* error at every second.
C5_KeyClassSeparation ==
    /\ \A q \in Reqs :
          /\ (q.op = "validateToken" /\ q.body.authorization.present
                  /\ q.body.authorization.token.sig = JWT_REFRESH_SECRET)
                => (q.res = ErrorRes(401, "Invalid token") /\ ~q.next /\ q.user = NoIdentity)
          /\ (q.op = "refresh" /\ q.body.refreshToken.sig = JWT_SECRET)
                => (/\ q.pc = "done"
                    /\ q.res = ErrorRes(401, "Invalid or expired refresh token"))
    /\ \A k \in Held : \A t \in 0..MaxTime :
          /\ k.sig = JWT_SECRET
                => jwtVerify(k, JWT_REFRESH_SECRET, t).name = "JsonWebTokenError"
          /\ k.sig = JWT_REFRESH_SECRET
                => jwtVerify(k, JWT_SECRET, t).name = "JsonWebTokenError"

\* A stored refresh token has been shown to validateToken, and an access
\* token to refresh.
C5_Witness ==
    \E g \in Reqs, q \in Reqs :
        /\ g.op = "validateToken" /\ g.pc = "done"
        /\ g.body.authorization.token.sig = JWT_REFRESH_SECRET
        /\ \E row \in BagToSet(refresh_tokens) : row.token = g.body.authorization.token
        /\ q.op = "refresh" /\ q.pc = "done"
        /\ q.body.refreshToken.sig = JWT_SECRET

\* C6: the access token of a refresh response differs from the access token
\* the session was issued with and from those of its other renewals.
C6_RenewedAccessIsNew ==
    \A q \in Reqs : \A s \in Reqs :
        /\ (Renewed(q) /\ Issued(s) /\ s.res.refreshToken = q.body.refreshToken)
              => q.res.accessToken # s.res.accessToken
        /\ (Renewed(q) /\ Renewed(s) /\ s.body.refreshToken = q.body.refreshToken)
              => (q.res.accessToken # s.res.accessToken \/ (s = q /\ CopiesIn(q, req) = 1))

\* A token that is a JWT with an expiry: one the service signed as an access
\* token, or one signed with a foreign key.
AccessShaped(token) == token.sig \in {JWT_SECRET, "forged"}

\* C7 as stated: validateToken answers 401 'Token expired' to every access
\* credential whose expiry has passed, whether or not its signature is
\* valid, calls no next and attaches no identity.
C7_ExpiredAlwaysTokenExpired ==
    [][\A q \in NewlyDone :
          (/\ q.op = "validateToken" /\ q.body.authorization.present
           /\ AccessShaped(q.body.authorization.token)
           /\ now >= q.body.authorization.token.exp)
              => (q.res = ErrorRes(401, "Token expired") /\ ~q.next /\ q.user = NoIdentity)]_vars

\* C7, amended: validateToken answers 401 'Token expired' to every expired
\* access credential signed with the access secret, and 401 'Invalid token'
\* to an expired one whose signature is not valid; either way it calls no
\* next and attaches no identity.
C7_ExpiredRejected ==
    [][\A q \in NewlyDone :
          (/\ q.op = "validateToken" /\ q.body.authorization.present
           /\ AccessShaped(q.body.authorization.token)
           /\ now >= q.body.authorization.token.exp)
              => /\ ~q.next /\ q.user = NoIdentity
                 /\ q.body.authorization.token.sig = JWT_SECRET
                      => q.res = ErrorRes(401, "Token expired")
                 /\ q.body.authorization.token.sig # JWT_SECRET
                      => q.res = ErrorRes(401, "Invalid token")]_vars

\* validateToken has answered 'Token expired' to an access token the service
\* had issued.
C7_Witness ==
    \E q \in Reqs :
        /\ q.op = "validateToken" /\ q.pc = "done"
        /\ q.body.authorization.token.sig = JWT_SECRET
        /\ q.res = ErrorRes(401, "Token expired")
        /\ ~q.next /\ q.user = NoIdentity

\* C8: a step of validateToken leaves refresh_tokens as it is, and lets an
\* unexpired access token through whatever rows the table holds, also
\* after the refresh token of its session has been deleted by logout.
C8_GuardIgnoresRefreshStore ==
    [][\A q \in NewlyDone :
          q.op = "validateToken"
             => /\ refresh_tokens' = refresh_tokens
                /\ (/\ q.body.authorization.present
                    /\ q.body.authorization.token.sig = JWT_SECRET
                    /\ now < q.body.authorization.token.exp)
                     => /\ q.next /\ q.res = NoRes
                        /\ q.user = IdentityOf(q.body.authorization.token)]_vars

\* validateToken has let through the access token of a session whose
\* refresh token is no longer in refresh_tokens: logout has deleted it.
C8_Witness ==
    \E s \in Reqs, g \in Reqs :
        /\ Issued(s)
        /\ g.op = "validateToken" /\ g.pc = "done" /\ g.next
        /\ g.body.authorization.token = s.res.accessToken
        /\ g.user = [userId |-> s.res.user.id, email |-> s.res.user.email]
        /\ \A row \in BagToSet(refresh_tokens) : row.token # s.res.refreshToken

\* C9: a signup or login whose INSERT into refresh_tokens fails answers 500
\* and returns neither token it had minted; a response that carries a token
\* is a 200 or 201 sent in the step that stored the row of its refresh token
\* under its user's id.
C9_NoTokensWithoutRecord ==
    [][\A q \in NewlyDone :
          IsIssue(q) =>
              LET row == [user_id |-> q.res.user.id, token |-> q.res.refreshToken]
              IN  /\ (Truthy(q.loc.refreshToken) /\ refresh_tokens' = refresh_tokens)
                        => /\ q.res.status = 500
                           /\ q.res.accessToken = NoToken
                           /\ q.res.refreshToken = NoToken
                  /\ (Truthy(q.res.refreshToken) \/ Truthy(q.res.accessToken))
                        => /\ q.res.status \in {200, 201}
                           /\ q.res.refreshToken = q.loc.refreshToken
                           /\ Truthy(q.res.refreshToken)
                           /\ CopiesIn(row, refresh_tokens') = CopiesIn(row, refresh_tokens) + 1]_vars

\* A signup and a login have each answered 500 after minting their tokens:
\* the INSERT of the refresh token failed.
C9_Witness ==
    \E q \in Reqs, s \in Reqs :
        /\ q.op = "signup" /\ q.pc = "done" /\ q.res.status = 500
        /\ Truthy(q.loc.refreshToken) /\ Truthy(q.loc.accessToken)
        /\ s.op = "login" /\ s.pc = "done" /\ s.res.status = 500
        /\ Truthy(s.loc.refreshToken) /\ Truthy(s.loc.accessToken)

\* C10 as stated: while the store answers, logout succeeds for every input
\* value.
C10_LogoutAlwaysSucceeds ==
    \A q \in Reqs :
        (q.op = "logout" /\ q.pc = "done" /\ q.res.status # 500) => q.res.status = 200

\* C10, amended: while the store answers, logout answers 200 for every
\* value that is not missing or empty, be it without a row, malformed,
\* wrongly signed or already revoked; afterwards no row holds the value, and
\* a second logout of it would leave the table as the first left it.  A
\* missing or empty value is answered 400 and the table is left alone.
C10_LogoutIdempotent ==
    [][\A q \in NewlyDone :
          q.op = "logout" =>
              LET value == q.body.refreshToken
              IN  /\ (Truthy(value) /\ q.res.status # 500)
                        => /\ q.res.status = 200
                           /\ \A row \in BagToSet(refresh_tokens') : row.token # value
                           /\ \A row \in BagToSet(refresh_tokens) :
                                 row.token # value
                                    => CopiesIn(row, refresh_tokens') = CopiesIn(row, refresh_tokens)
                           /\ DeleteRefreshToken(refresh_tokens', value) = refresh_tokens'
                  /\ ~Truthy(value)
                        => /\ q.res = ErrorRes(400, "Refresh token required")
                           /\ refresh_tokens' = refresh_tokens
                  /\ q.res.status = 500 => refresh_tokens' = refresh_tokens]_vars

\* Two logouts of the same issued refresh token have both answered 200: the
\* first deleted its row, the second found none.
C10_Witness ==
    \E q \in Reqs, s \in Reqs :
        /\ q.op = "logout" /\ q.pc = "done" /\ q.res.status = 200 /\ q.loc.rowCount > 0
        /\ s.op = "logout" /\ s.pc = "done" /\ s.res.status = 200 /\ s.loc.rowCount = 0
        /\ s.body.refreshToken = q.body.refreshToken
        /\ q.body.refreshToken.sig = JWT_REFRESH_SECRET

\* A login or a refresh of a present token that was answered 401.
AuthenticationFailure(q) ==
    /\ q.pc = "done" /\ q.res.status = 401
    /\ q.op = "login" \/ (q.op = "refresh" /\ Truthy(q.body.refreshToken))

\* C11: the 401 responses of one operation are all the same response,
\* whatever made the authentication fail: no such user or wrong password at
\* login; bad signature, expiry or no stored row at refresh.
C11_FailureCauseHidden ==
    \A q \in Reqs : \A s \in Reqs :
        (AuthenticationFailure(q) /\ AuthenticationFailure(s) /\ q.op = s.op)
            => q.res = s.res

\* C12: validateToken calls next and sets req.user, sending nothing, exactly
\* when the header carries a token that jwt.verify accepts under JWT_SECRET;
\* otherwise it answers 401, calls no next and leaves req.user unset: 'Access
\* token required' without a header, 'Invalid token format' without a second
\* part, 'Invalid token' for a bad signature, 'Token expired' after the expiry.
C12_GuardProceedsIffVerified ==
    [][\A q \in NewlyDone :
          q.op = "validateToken" =>
              LET h == q.body.authorization
                  v == jwtVerify(h.token, JWT_SECRET, now)
                  verified == h.present /\ Truthy(h.token) /\ v.ok
              IN  /\ q.next <=> verified
                  /\ (q.user # NoIdentity) <=> verified
                  /\ verified => (q.res = NoRes /\ q.user = IdentityOf(h.token))
                  /\ ~verified => q.res.status = 401
                  /\ ~h.present => q.res = ErrorRes(401, "Access token required")
                  /\ (h.present /\ ~Truthy(h.token))
                        => q.res = ErrorRes(401, "Invalid token format")
                  /\ (h.present /\ Truthy(h.token) /\ v.name = "JsonWebTokenError")
                        => q.res = ErrorRes(401, "Invalid token")
                  /\ (h.present /\ Truthy(h.token) /\ v.name = "TokenExpiredError")
                        => q.res = ErrorRes(401, "Token expired")]_vars

\* validateToken has let one request through with its identity and has
\* answered 'Invalid token format' to a header without a second part.
C12_Witness ==
    \E g \in Reqs, r \in Reqs :
        /\ g.op = "validateToken" /\ g.pc = "done" /\ g.next
        /\ g.user = IdentityOf(g.body.authorization.token) /\ g.res = NoRes
        /\ r.op = "validateToken" /\ r.pc = "done" /\ ~r.next
        /\ r.body.authorization.present /\ ~Truthy(r.body.authorization.token)
        /\ r.res = ErrorRes(401, "Invalid token format") /\ r.user = NoIdentity

\* C13: a refresh of a present token whose signature was not made with
\* JWT_REFRESH_SECRET, or whose exp is not after the second it arrives in, is
\* answered at once with 401 'Invalid or expired refresh token', without an
\* access token, and refresh_tokens stays as it is, whether or not the table
\* holds a row for the token.
C13_UnverifiedRefreshRejected ==
    [][\A q \in Moved :
          (/\ BagCardinality(req') > BagCardinality(req)
           /\ q.op = "refresh" /\ Truthy(q.body.refreshToken)
           /\ \/ q.body.refreshToken.sig # JWT_REFRESH_SECRET
              \/ now >= q.body.refreshToken.exp)
              => /\ q.pc = "done"
                 /\ q.res = ErrorRes(401, "Invalid or expired refresh token")
                 /\ q.res.accessToken = NoToken
                 /\ refresh_tokens' = refresh_tokens]_vars

\* A refresh token the service signed has been refused as expired while its
\* row is in refresh_tokens.
C13_Witness ==
    \E q \in Reqs :
        /\ q.op = "refresh" /\ q.pc = "done"
        /\ q.body.refreshToken.sig = JWT_REFRESH_SECRET
        /\ q.res = ErrorRes(401, "Invalid or expired refresh token")
        /\ now >= q.body.refreshToken.exp
        /\ BagIn([user_id |-> q.body.refreshToken.userId, token |-> q.body.refreshToken],
                 refresh_tokens)

\* C14: once a signup has created the account of an email (201), every other
\* signup of that email that is past its existence check has been answered
\* 409 'User already exists' and has minted no token (a signup ended by a
\* missing field, 400, or by a store fault, 500, apart).
C14_DuplicateSignupAnswered409 ==
    \A q \in Reqs : \A s \in Reqs :
        (/\ q.op = "signup" /\ q.pc = "done" /\ q.res.status = 201
         /\ s.op = "signup" /\ s # q /\ s.body.email = q.body.email
         /\ s.pc # "signup_select" /\ s.res.status \notin {400, 500})
            => /\ s.pc = "done"
               /\ s.res = ErrorRes(409, "User already exists")
               /\ s.loc.accessToken = NoToken /\ s.loc.refreshToken = NoToken

\* A pool.query of some handler rejects in this step.
StoreCallFails ==
    \E q \in Reqs : SignupCatch(q) \/ LoginCatch(q) \/ RefreshCatch(q) \/ LogoutCatch(q)

\* C15: a request that is through has exactly one outcome, a response or
\* (validateToken only) a call of next; a request in flight has none yet; a
\* request that has its outcome gets no other, it stays as it is until its
\* caller lets go of it; and a rejected pool.query ends its request with 500
\* 'Internal server error'.
C15_ExactlyOneOutcome ==
    [][/\ \A q \in Moved :
             /\ q.pc = "done" => ((q.res.status # 0) # q.next)
             /\ (q.pc = "done" /\ q.op # "validateToken") => ~q.next
             /\ q.pc # "done" => (q.res = NoRes /\ ~q.next)
       /\ \A q \in Reqs :
             q.pc = "done"
                => \/ CopiesIn(q, req') >= CopiesIn(q, req)
                   \/ req' = req (-) SetToBag({q})
       /\ StoreCallFails
             => \E q \in NewlyDone : q.res = ErrorRes(500, "Internal server error")
      ]_vars

\* A logout whose DELETE was rejected has been answered 500, and
\* validateToken has passed a request on without answering it.
C15_Witness ==
    \E q \in Reqs, g \in Reqs :
        /\ q.op = "logout" /\ q.pc = "done" /\ q.res = ErrorRes(500, "Internal server error")
        /\ g.op = "validateToken" /\ g.pc = "done" /\ g.next /\ g.res = NoRes

\* C16: when a logout has deleted the rows of two sessions that carry the
\* same refresh token, having been asked to end one of them, a refresh of
\* the other session's token that starts afterwards and passes jwt.verify
\* still succeeds (its lookup failing apart).
C16_OtherSessionStaysRenewable ==
    \A q \in Reqs : \A s \in Reqs :
        (/\ s.op = "logout" /\ s.pc = "done" /\ s.res.status = 200
         /\ s.loc.rowCount >= 2
         /\ q.op = "refresh" /\ q.pc = "done" /\ q.loc.afterLogout
         /\ q.body.refreshToken = s.body.refreshToken
         /\ q.loc.decoded # NoIdentity)
            => q.res.status \in {200, 500}

\* C17: every row of refresh_tokens holds a token signed with
\* JWT_REFRESH_SECRET for the user_id of the row, and that user is in users;
\* rows are added only by the INSERT of a signup or a login, one row for the
\* token the request minted under the id of its user, and removed only by
\* the DELETE of a logout.
C17_RefreshRecordOwnership ==
    [][/\ \A row \in BagToSet(refresh_tokens') :
             /\ row.token.sig = JWT_REFRESH_SECRET
             /\ row.token.userId = row.user_id
             /\ \E u \in users' : u.id = row.user_id /\ u.email = row.token.email
       /\ refresh_tokens' # refresh_tokens
             => \E q \in NewlyDone :
                   \/ /\ IsIssue(q) /\ q.res.status \in {200, 201}
                      /\ q.loc.refreshToken.userId = q.loc.user.id
                      /\ refresh_tokens' = refresh_tokens (+)
                            SetToBag({[user_id |-> q.loc.user.id, token |-> q.loc.refreshToken]})
                   \/ /\ q.op = "logout" /\ q.res.status = 200
                      /\ \A row \in BagToSet(refresh_tokens) :
                            CopiesIn(row, refresh_tokens') =
                               IF row.token = q.body.refreshToken THEN 0
                               ELSE CopiesIn(row, refresh_tokens)
                      /\ BagToSet(refresh_tokens') \subseteq BagToSet(refresh_tokens)
      ]_vars

\* refresh_tokens holds the rows of two users at once, each under its own id.
C17_Witness ==
    \E r1 \in BagToSet(refresh_tokens), r2 \in BagToSet(refresh_tokens) :
        /\ r1.user_id # r2.user_id
        /\ r1.token.userId = r1.user_id /\ r2.token.userId = r2.user_id

\* C18: a signup that was answered 500 has left no row in users.
C18_FailedSignupLeavesNoUser ==
    \A q \in Reqs :
        (q.op = "signup" /\ q.pc = "done" /\ q.res.status = 500)
            => ~ \E u \in users : u.id = q.loc.user.id

\* C19: a signup or login answered 400, 401 or 409 has minted no token,
\* returns none and leaves refresh_tokens and users as they are; and a row
\* enters refresh_tokens only for a request whose account check has passed:
\* a login whose password matches the users row of its email, under the id
\* of that row, or a signup whose own users row is in the table.
C19_RejectedIssuesNothing ==
    [][/\ \A q \in NewlyDone :
             (IsIssue(q) /\ q.res.status \in {400, 401, 409})
                => /\ q.loc.accessToken = NoToken /\ q.loc.refreshToken = NoToken
                   /\ q.res.accessToken = NoToken /\ q.res.refreshToken = NoToken
                   /\ refresh_tokens' = refresh_tokens
                   /\ users' = users
       /\ BagCardinality(refresh_tokens') > BagCardinality(refresh_tokens)
             => \E q \in NewlyDone : \E u \in users :
                   /\ IsIssue(q) /\ q.res.status \in {200, 201}
                   /\ u.email = q.body.email
                   /\ u.password = bcryptHash(q.body.password)
                   /\ q.op = "signup" => u = q.loc.user
                   /\ refresh_tokens' = refresh_tokens (+)
                         SetToBag({[user_id |-> u.id, token |-> q.res.refreshToken]})
      ]_vars

\* A login with a wrong password for an existing account has been answered
\* 401 and a signup of an existing email 409.
C19_Witness ==
    \E q \in Reqs, s \in Reqs :
        /\ q.op = "login" /\ q.pc = "done" /\ q.res.status = 401
        /\ \E u \in users : u.email = q.body.email /\ u.password # bcryptHash(q.body.password)
        /\ s.op = "signup" /\ s.pc = "done" /\ s.res.status = 409

====
